---- MODULE Spec2Model ----
(***************************************************************************)
(* Model of the Brave Search research agent                                *)
(* (use-cases/pydantic-ai/brave_search_agent).                             *)
(*                                                                         *)
(* tools.py: brave_search_tool is a coroutine: it validates its inputs,    *)
(* enters the process-wide search_rate_limiter, issues one HTTP GET and    *)
(* turns the outcome of the GET into a string.  Several calls may be alive *)
(* at once on the event loop; a call gives up control only where it        *)
(* awaits: on the limiter (when it has no capacity) and on session.get.    *)
(*                                                                         *)
(* settings.py, dependencies.py, agent.py: load_settings reads the         *)
(* environment; create() builds a bundle of API key and HTTP client;       *)
(* run_research and run_research_sync create a bundle, run the agent,      *)
(* whose model loop calls search_web, and close the bundle.                *)
(*                                                                         *)
(* Specifications: Spec (concurrent tool calls), SpecLive (the same on an  *)
(* event loop that keeps running), SpecTool (one tool call, every input    *)
(* and outcome), SpecSettings (load_settings), SpecRun (the entry points)  *)
(* and SpecSearchWeb (search_web with a stand-in for its delegate).        *)
(*                                                                         *)
(* Strings are TLA+ strings; time is counted in ticks, TicksPerSecond      *)
(* ticks to the second.                                                    *)
(***************************************************************************)
EXTENDS Integers, Sequences, FiniteSets, TLC

\* ---------------------------------------------------------------- bounds
NumCalls == 3
TicksPerSecond == 2
MaxTime == 5
NumRuns == 2
MaxSearches == 2
MaxLoads == 2

Calls == 1..NumCalls
Runs == 1..NumRuns

\* ------------------------------------------------------- program constants
\* AsyncLimiter(2, 1)
max_rate_two == 1 + 1
\* AsyncLimiter(1, 1): max_rate requests per time_period seconds.
max_rate == 1
time_period == 1
MIN_RESULTS == 1
MAX_RESULTS == 20
TEXT_LIMIT == 200
DEFAULT_MAX_RESULTS == 10
BRAVE_URL == "https://api.search.brave.com/res/v1/web/search"

\* ------------------------------------------------------------ small helpers
Min(a, b) == IF a <= b THEN a ELSE b
Max(a, b) == IF a >= b THEN a ELSE b

\* s * n
RECURSIVE Repeat(_, _)
Repeat(s, n) ==
    IF n = 0 THEN ""
    ELSE LET half == Repeat(s, n \div 2)
         IN  half \o half \o (IF n % 2 = 1 THEN s ELSE "")

\* ------------------------------------------------------------ Python str
IsSpace(ch) == ch \in {" ", "\t", "\n"}

RECURSIVE lstrip(_)
lstrip(s) == IF s # "" /\ IsSpace(Head(s)) THEN lstrip(Tail(s)) ELSE s

RECURSIVE rstrip(_)
rstrip(s) ==
    IF s # "" /\ IsSpace(SubSeq(s, Len(s), Len(s)))
    THEN rstrip(SubSeq(s, 1, Len(s) - 1))
    ELSE s

\* str.strip()
strip(s) == rstrip(lstrip(s))

\* `not s`, without the strip
IsBlankNoStrip(s) == s = ""
\* `not s or not s.strip()`
IsBlank(s) == s = "" \/ strip(s) = ""

\* s[:n] with the slice forgotten
PrefixUncut(s, n) == s
\* s[:n]
Prefix(s, n) == SubSeq(s, 1, Min(Len(s), n))

\* the positions at which sub occurs in s
Occurrences(s, sub) ==
    {p \in 1..(Len(s) - Len(sub) + 1) : SubSeq(s, p, p + Len(sub) - 1) = sub}

Contains(s, sub) == Occurrences(s, sub) # {}

\* ------------------------------------------------------- decoded JSON values
JNone == [tag |-> "None"]
JDict(f) == [tag |-> "dict", items |-> f]
JList(l) == [tag |-> "list", elems |-> l]
\* a body response.json() cannot decode
JInvalid == [tag |-> "invalid"]

PyTypeName(v) == IF v.tag = "None" THEN "NoneType" ELSE v.tag

\* dict.get(key, default)
Get(d, key, default) ==
    IF key \in DOMAIN d.items THEN d.items[key] ELSE default

\* `v is None` in place of `not v`
IsNone(v) == v.tag = "None"
\* `not v`
Falsy(v) ==
    \/ v.tag = "None"
    \/ v.tag = "list" /\ v.elems = <<>>
    \/ v.tag = "dict" /\ DOMAIN v.items = {}

\* str(e) of the AttributeError raised by v.get(...) when v is no dict
AttributeErrorMsg(v) == "'" \o PyTypeName(v) \o "' object has no attribute 'get'"

\* str(e) of the error response.json() raises on a body that is not JSON
JSON_DECODE_MSG == "Expecting value: line 1 column 1 (char 0)"

\* ------------------------------------------------- outcomes of session.get
\* What `await session.get(...)` can do: return a response, raise
\* asyncio.TimeoutError, or raise another exception whose str() is msg.
HttpResponse(status, text, json) ==
    [kind |-> "response", status_code |-> status, text |-> text, json |-> json, msg |-> ""]
GetTimeout ==
    [kind |-> "timeout", status_code |-> 0, text |-> "", json |-> JNone, msg |-> ""]
GetException(m) ==
    [kind |-> "exception", status_code |-> 0, text |-> "", json |-> JNone, msg |-> m]
\* session.get has not been called, or has no outcome yet
NoOutcome ==
    [kind |-> "none", status_code |-> 0, text |-> "", json |-> JNone, msg |-> ""]

\* ------------------------------------------- the try block of the tool
\* Outcome of a block of code: a returned string, or a raised exception of
\* class exc ("TimeoutError" is asyncio.TimeoutError) with str(e) = value.
\* parsed counts the calls of response.json().
Return(s, n) == [exc |-> "none", value |-> s, parsed |-> n]
Raise(cls, m, n) == [exc |-> cls, value |-> m, parsed |-> n]

\* one entry of the report, numbered from 0 as enumerate(web_results) would
FormatEntryFromZero(i, result) ==
    LET title == Get(result, "title", "No title")
        url == Get(result, "url", "No URL")
        description == Get(result, "description", "No description")
    IN  ToString(i - 1) \o ". **" \o title \o "**\n"
        \o "   URL: " \o url \o "\n"
        \o "   " \o description \o "\n\n"
\* lines 97-103: one numbered entry of the report
FormatEntry(i, result) ==
    LET title == Get(result, "title", "No title")
        url == Get(result, "url", "No URL")
        description == Get(result, "description", "No description")
    IN  ToString(i) \o ". **" \o title \o "**\n"
        \o "   URL: " \o url \o "\n"
        \o "   " \o description \o "\n\n"

\* lines 96-103: the loop over enumerate(web_results, 1), from entry i on
RECURSIVE FormatFrom(_, _)
FormatFrom(elems, i) ==
    IF i > Len(elems) THEN Return("", 1)
    ELSE IF elems[i].tag # "dict" THEN Raise("Exception", AttributeErrorMsg(elems[i]), 1)
    ELSE LET rest == FormatFrom(elems, i + 1)
         IN  IF rest.exc # "none" THEN rest
             ELSE Return(FormatEntry(i, elems[i]) \o rest.value, 1)

\* lines 87-106: the status-200 path
ParseAndFormat(query, json) ==
    IF json.tag = "invalid" THEN Raise("Exception", JSON_DECODE_MSG, 1)
    ELSE IF json.tag # "dict" THEN Raise("Exception", AttributeErrorMsg(json), 1)
    ELSE LET web == Get(json, "web", JDict(<<>>))
         IN  IF web.tag # "dict" THEN Raise("Exception", AttributeErrorMsg(web), 1)
             ELSE LET web_results == Get(web, "results", JList(<<>>))
                  IN  IF Falsy(web_results)
                      THEN Return("No search results found for query: " \o query, 1)
                      ELSE LET body == FormatFrom(web_results.elems, 1)
                           IN  IF body.exc # "none" THEN body
                               ELSE Return("Search Results for '" \o query \o "':\n\n"
                                           \o body.value, 1)

\* lines 71-85: the status branches, in the order the code tests them
\* line 72, testing for another status
status_is_420(status) == status = 420
\* line 72
status_is_rate_limited(status) == status = 429

\* line 77, testing for 403 Forbidden
status_is_403(status) == status = 403
\* line 77
status_is_unauthorized(status) == status = 401

status_is_ok(status) == status = 200

\* lines 65-106: the body of the try block once session.get has an outcome
TryBody(query, out) ==
    IF out.kind = "timeout" THEN Raise("TimeoutError", "", 0)
    ELSE IF out.kind = "exception" THEN Raise("Exception", out.msg, 0)
    ELSE IF status_is_rate_limited(out.status_code)
         THEN Return("Error: Rate limit exceeded. Please try again in a moment.", 0)
    ELSE IF status_is_unauthorized(out.status_code)
         THEN Return("Error: Invalid Brave API key. Please check your configuration.", 0)
    ELSE IF ~status_is_ok(out.status_code)
         THEN LET error_msg == "Brave API returned " \o ToString(out.status_code)
                               \o ": " \o Prefix(out.text, TEXT_LIMIT)
              IN  Return("Error: " \o error_msg, 0)
    ELSE ParseAndFormat(query, out.json)

\* the two handlers in the other order: `except Exception` comes first
CompleteGenericFirst(query, out) ==
    LET r == TryBody(query, out)
    IN  IF r.exc = "none" THEN r
        ELSE Return("Error: " \o "Search failed: " \o r.value, r.parsed)

\* the try block ends after session.get: what the status-200 path raises
\* is not caught
CompleteGetOnly(query, out) ==
    LET r == TryBody(query, out)
    IN  IF r.exc = "none" \/ r.parsed > 0 THEN r
        ELSE IF r.exc = "TimeoutError"
             THEN Return("Error: " \o "Search request timed out", r.parsed)
        ELSE Return("Error: " \o "Search failed: " \o r.value, r.parsed)

\* the handlers log and raise again
CompleteReraise(query, out) == TryBody(query, out)

\* lines 51-115: try / except asyncio.TimeoutError / except Exception
Complete(query, out) ==
    LET r == TryBody(query, out)
    IN  IF r.exc = "none" THEN r
        ELSE IF r.exc = "TimeoutError"
             THEN Return("Error: " \o "Search request timed out", r.parsed)
        ELSE Return("Error: " \o "Search failed: " \o r.value, r.parsed)

\* line 47 with the lower bound one too low
ClampFromZero(max_results) == Min(Max(max_results, 0), MAX_RESULTS)
\* line 47: min(max(max_results, 1), 20)
Clamp(max_results) == Min(Max(max_results, MIN_RESULTS), MAX_RESULTS)

\* ------------------------------------------------------ search_rate_limiter
\* search_rate_limiter = AsyncLimiter(1, 1) is a leaky bucket: acquiring adds
\* one unit to its level, the level drains at max_rate / time_period units a
\* second, and a unit is granted only while level + 1 <= max_rate.  `async
\* with` acquires on entry and does nothing on exit.  level is kept in
\* 1/PeriodTicks of a unit so that the drain of one tick is a whole number.
PeriodTicks == time_period * TicksPerSecond

\* the bucket as it is at time t (the limiter drains lazily, on each look)
Leak(lim, t) ==
    [level |-> Max(lim.level - (t - lim.last_check) * max_rate, 0), last_check |-> t]

HasCapacity(lim) == lim.level + PeriodTicks <= max_rate * PeriodTicks

Acquire(lim) == [lim EXCEPT !.level = @ + PeriodTicks]

\* ------------------------------------------------------------------ inputs
ApiKeys == {"", "  ", "key-A", "key-B"}
Queries == {"", " \t", "tla", " tla "}
MaxResultsValues == {-3, 0, 1, 10, 20, 21, 25}
Sessions == {"session-1", "session-2"}

Result1 == JDict([title |-> "TLA+", url |-> "https://tla.example/1", description |-> "Home"])
Result2 == JDict([title |-> "Valid Result"])
Result3 == JDict(<<>>)

JsonBodies ==
    { JDict([web |-> JDict([results |-> JList(<<>>)])]),
      JDict([web |-> JDict([type |-> "search"])]),
      JDict([type |-> "search"]),
      JDict([web |-> JDict([results |-> JList(<<Result1>>)])]),
      JDict([web |-> JDict([results |-> JList(<<Result3, Result2, Result1>>)])]),
      JDict([web |-> JNone]),
      JList(<<>>),
      JInvalid }

Texts == {"", "Internal server error", Repeat("x", 200), Repeat("x", 200) \o "TAIL"}
ErrorStatuses == {204, 400, 403, 404, 500, 503}

\* every outcome of session.get the tool is tried on
Outcomes ==
    {HttpResponse(200, "", j) : j \in JsonBodies}
    \cup {HttpResponse(st, t, j) : st \in {401, 429}, t \in {"", "Unauthorized"},
                                   j \in {JInvalid, JDict([web |-> JDict([results |-> JList(<<Result1>>)])])}}
    \cup {HttpResponse(st, t, JInvalid) : st \in ErrorStatuses, t \in Texts}
    \cup {HttpResponse(500, "{}", JDict([web |-> JDict([results |-> JList(<<Result1>>)])]))}
    \cup {GetTimeout}
    \cup {GetException(m) : m \in {"Connection error", ""}}

\* the inputs and outcomes of the concurrent runs
ConcInputs ==
    { [api_key |-> "key-A", session |-> "session-1", query |-> "tla"],
      [api_key |-> "key-B", session |-> "session-2", query |-> "tla"],
      [api_key |-> "key-A", session |-> "session-2", query |-> "tla"],
      [api_key |-> "key-A", session |-> "session-1", query |-> ""],
      [api_key |-> "", session |-> "session-1", query |-> "tla"] }

ConcOutcomes ==
    { HttpResponse(200, "", JDict([web |-> JDict([results |-> JList(<<>>)])])),
      HttpResponse(429, "Too many requests", JInvalid),
      HttpResponse(401, "Unauthorized", JInvalid),
      HttpResponse(500, "Internal server error", JInvalid),
      GetTimeout,
      GetException("Connection error") }

\* -------------------------------------------------------------------- state
\* The limiters of the process, by name.  The tool has one, the module-level
\* search_rate_limiter; the other names stay untouched.
LimiterNames == {"search_rate_limiter"} \cup Sessions

VARIABLES
    now,        \* the event loop's clock, in ticks
    limiters,   \* [level, last_check] of each limiter
    calls,      \* the brave_search_tool invocations, by order of invocation
    gets,       \* the HTTP GETs issued so far, in order
    runs,       \* the run_research / run_research_sync invocations
    searches,   \* the search_web invocations of the agent, in order
    clients,    \* the httpx.AsyncClient objects created so far, in order
    loads       \* the load_settings calls made so far, in order

vars == <<now, limiters, calls, gets, runs, searches, clients, loads>>
agentvars == <<runs, searches, clients, loads>>

\* a call that has not been made yet
NotCalled ==
    [pc |-> "idle", api_key |-> "", session |-> "", query |-> "", max_results |-> 0,
     count |-> 0, outcome |-> NoOutcome, parsed |-> 0, result |-> "", exc |-> "none"]

\* Optional[str] = None
None == "<None>"

\* no dependency bundle
NoDeps == [brave_api_key |-> "", session |-> "", session_id |-> None]

\* agent.run / agent.run_sync has not ended
NotEnded == [kind |-> "none", value |-> ""]

\* no environment read yet
NoEnv == [var \in {} |-> ""]

\* an entry point that has not been called yet
NotInvoked ==
    [pc |-> "idle", entry |-> "", query |-> "", session_id |-> None, max_results |-> 0,
     env |-> NoEnv, deps |-> NoDeps, outcome |-> NotEnded, closes |-> 0, close_exc |-> "none",
     result |-> "", exc |-> "none"]

Init ==
    /\ now = 0
    /\ limiters = [l \in LimiterNames |-> [level |-> 0, last_check |-> 0]]
    /\ calls = [c \in Calls |-> NotCalled]
    /\ gets = <<>>
    /\ runs = [r \in Runs |-> NotInvoked]
    /\ searches = <<>>
    /\ clients = <<>>
    /\ loads = <<>>

\* input validation with the two checks in the other order
ValidateQueryFirst(api_key, query) ==
    IF IsBlank(query) THEN "Error: Search query cannot be empty"
    ELSE IF IsBlank(api_key) THEN "Error: Brave API key is required"
    ELSE ""
\* lines 40-44: input validation; "" when the inputs pass
Validate(api_key, query) ==
    IF IsBlank(api_key) THEN "Error: Brave API key is required"
    ELSE IF IsBlank(query) THEN "Error: Search query cannot be empty"
    ELSE ""

\* a limiter per HTTP session
LimiterPerSession(api_key, session) == session
\* line 50: the limiter a call enters, the same for every call
LimiterFor(api_key, session) == "search_rate_limiter"

\* a request sent to the endpoint the settings of the session's run name
RequestConfiguredUrl(c, rec) ==
    LET env == runs[CHOOSE r \in Runs : runs[r].deps.session = rec.session].env
    IN  [call |-> c, at |-> now, session |-> rec.session,
         url |-> IF "BRAVE_SEARCH_URL" \in DOMAIN env THEN env.BRAVE_SEARCH_URL ELSE BRAVE_URL,
         token |-> rec.api_key, accept |-> "application/json",
         q |-> rec.query, count |-> rec.count, search_lang |-> "en"]
\* lines 54-69: the request session.get is called with
Request(c, rec) ==
    [call |-> c, at |-> now, session |-> rec.session, url |-> BRAVE_URL,
     token |-> rec.api_key, accept |-> "application/json",
     q |-> rec.query, count |-> rec.count, search_lang |-> "en"]

\* a limiter that is held until the response is in: no call gets through
\* while a GET is in flight
EnterLimiterHeld(c, rec) ==
    LET name == LimiterFor(rec.api_key, rec.session)
        lim == Leak(limiters[name], now)
    IN  IF HasCapacity(lim) /\ \A d \in Calls : calls[d].pc # "in_flight"
        THEN /\ limiters' = [limiters EXCEPT ![name] = Acquire(lim)]
             /\ gets' = Append(gets, Request(c, rec))
             /\ calls' = [calls EXCEPT ![c] = [rec EXCEPT !.pc = "in_flight"]]
        ELSE /\ limiters' = [limiters EXCEPT ![name] = lim]
             /\ gets' = gets
             /\ calls' = [calls EXCEPT ![c] = [rec EXCEPT !.pc = "waiting"]]
\* line 50 onwards, for a call that is at the limiter: drain the bucket; with
\* capacity take a unit and go on to session.get without giving up control,
\* without capacity wait.
EnterLimiter(c, rec) ==
    LET name == LimiterFor(rec.api_key, rec.session)
        lim == Leak(limiters[name], now)
    IN  IF HasCapacity(lim)
        THEN /\ limiters' = [limiters EXCEPT ![name] = Acquire(lim)]
             /\ gets' = Append(gets, Request(c, rec))
             /\ calls' = [calls EXCEPT ![c] = [rec EXCEPT !.pc = "in_flight"]]
        ELSE /\ limiters' = [limiters EXCEPT ![name] = lim]
             /\ gets' = gets
             /\ calls' = [calls EXCEPT ![c] = [rec EXCEPT !.pc = "waiting"]]

\* a tool that enters the limiter before it validates its inputs
CallAcquireFirst(c, api_key, session, query, max_results) ==
    /\ calls[c].pc = "idle"
    /\ \A d \in Calls : d < c => calls[d].pc # "idle"
    /\ LET rec == [NotCalled EXCEPT !.api_key = api_key, !.session = session,
                                    !.query = query, !.max_results = max_results]
           error == Validate(api_key, query)
           name == LimiterFor(api_key, session)
           lim == Leak(limiters[name], now)
       IN  IF error # ""
           THEN /\ calls' = [calls EXCEPT ![c] = [rec EXCEPT !.pc = "done", !.result = error]]
                /\ limiters' = [limiters EXCEPT ![name] = IF HasCapacity(lim) THEN Acquire(lim) ELSE lim]
                /\ UNCHANGED gets
           ELSE EnterLimiter(c, [rec EXCEPT !.count = Clamp(max_results)])
    /\ UNCHANGED now
\* lines 16-50: brave_search_tool is called and runs to its first await or return
Call(c, api_key, session, query, max_results) ==
    /\ calls[c].pc = "idle"
    /\ \A d \in Calls : d < c => calls[d].pc # "idle"
    /\ LET rec == [NotCalled EXCEPT !.api_key = api_key, !.session = session,
                                    !.query = query, !.max_results = max_results]
           error == Validate(api_key, query)
       IN  IF error # ""
           THEN /\ calls' = [calls EXCEPT ![c] = [rec EXCEPT !.pc = "done", !.result = error]]
                /\ UNCHANGED <<limiters, gets>>
           ELSE EnterLimiter(c, [rec EXCEPT !.count = Clamp(max_results)])
    /\ UNCHANGED now

\* a waiter that looks at the bucket and goes back to sleep whatever it holds
WakeAsleep(c) ==
    /\ calls[c].pc = "waiting"
    /\ LET name == LimiterFor(calls[c].api_key, calls[c].session)
       IN  limiters' = [limiters EXCEPT ![name] = Leak(limiters[name], now)]
    /\ UNCHANGED <<now, calls, gets>>
\* line 50: a call waiting on the limiter looks at the bucket again
Wake(c) ==
    /\ calls[c].pc = "waiting"
    /\ EnterLimiter(c, calls[c])
    /\ UNCHANGED now

\* Respond with a retry: a 429 sends the request again instead of returning
RespondRetry(c, out) ==
    /\ calls[c].pc = "in_flight"
    /\ IF out.kind = "response" /\ out.status_code = 429
       THEN /\ gets' = Append(gets, [Request(c, calls[c]) EXCEPT !.at = now])
            /\ UNCHANGED calls
       ELSE /\ LET r == Complete(calls[c].query, out)
               IN  calls' = [calls EXCEPT ![c] =
                        [@ EXCEPT !.pc = "done", !.outcome = out, !.parsed = r.parsed,
                                  !.result = r.value, !.exc = r.exc]]
            /\ UNCHANGED gets
    /\ UNCHANGED <<now, limiters>>

\* lines 65-115: session.get has an outcome and the call runs to its return
Respond(c, out) ==
    /\ calls[c].pc = "in_flight"
    /\ LET r == Complete(calls[c].query, out)
       IN  calls' = [calls EXCEPT ![c] =
                [@ EXCEPT !.pc = "done", !.outcome = out, !.parsed = r.parsed,
                          !.result = r.value, !.exc = r.exc]]
    /\ UNCHANGED <<now, limiters, gets>>

\* the clock advances
Tick ==
    /\ now < MaxTime
    /\ now' = now + 1
    /\ UNCHANGED <<limiters, calls, gets>>

\* Concurrent calls: any number of them alive at once, sharing the limiter.
Next ==
    \/ /\ \E c \in Calls, inp \in ConcInputs :
              Call(c, inp.api_key, inp.session, inp.query, DEFAULT_MAX_RESULTS)
       /\ UNCHANGED agentvars
    \/ /\ \E c \in Calls : Wake(c)
       /\ UNCHANGED agentvars
    \/ /\ \E c \in Calls, out \in ConcOutcomes : Respond(c, out)
       /\ UNCHANGED agentvars
    \/ /\ Tick
       /\ UNCHANGED agentvars

Spec == Init /\ [][Next]_vars

\* Time advances: from a GET to the moment the bucket has room for the next.
\* While the bucket is empty no call can be waiting for time to pass.
Elapse ==
    LET level == Leak(limiters["search_rate_limiter"], now).level
    IN  /\ level > 0
        /\ now' = now + level
        /\ UNCHANGED <<limiters, calls, gets>>

\* the inputs and outcomes of the calls whose return is awaited
LiveInputs ==
    { [api_key |-> "key-A", session |-> "session-1", query |-> "tla"],
      [api_key |-> "key-A", session |-> "session-1", query |-> ""] }

LiveOutcomes ==
    { HttpResponse(429, "Too many requests", JInvalid),
      GetTimeout,
      GetException("Connection error") }

\* Concurrent calls on an event loop that keeps running: time advances, a
\* waiter that can proceed does, and every GET has an outcome in the end.
NextLive ==
    \/ /\ \E c \in Calls, inp \in LiveInputs :
              Call(c, inp.api_key, inp.session, inp.query, DEFAULT_MAX_RESULTS)
       /\ UNCHANGED agentvars
    \/ /\ \E c \in Calls : Wake(c)
       /\ UNCHANGED agentvars
    \/ /\ \E c \in Calls, out \in LiveOutcomes : Respond(c, out)
       /\ UNCHANGED agentvars
    \/ /\ Elapse
       /\ UNCHANGED agentvars

SpecLive ==
    /\ Init /\ [][NextLive]_vars
    /\ WF_vars(Elapse /\ UNCHANGED agentvars)
    /\ \A c \in Calls : WF_vars(Wake(c) /\ UNCHANGED agentvars)
    /\ \A c \in Calls : WF_vars((\E out \in LiveOutcomes : Respond(c, out)) /\ UNCHANGED agentvars)

\* One call at a time, over every input and every outcome of the GET.
NextTool ==
    \/ /\ \E k \in ApiKeys, s \in Sessions, q \in Queries, m \in MaxResultsValues :
              Call(1, k, s, q, m)
       /\ UNCHANGED agentvars
    \/ /\ \E out \in Outcomes : Respond(1, out)
       /\ UNCHANGED agentvars
    \/ /\ Tick
       /\ UNCHANGED agentvars

SpecTool == Init /\ [][NextTool]_vars

\* ------------------------------------------------------------- settings.py
\* The process environment as load_settings sees it: a function from the names
\* of the variables that are set to their values.
Envs ==
    { [LLM_API_KEY |-> "sk-llm", BRAVE_API_KEY |-> "key-A"],
      [LLM_API_KEY |-> "sk-llm", BRAVE_API_KEY |-> "key-A",
       BRAVE_SEARCH_URL |-> "https://proxy.example/search"],
      [LLM_API_KEY |-> "sk-llm", BRAVE_API_KEY |-> "  "],
      [LLM_API_KEY |-> "sk-llm"] }

EnvVars == <<"LLM_API_KEY", "BRAVE_API_KEY">>
FieldOf == [LLM_API_KEY |-> "llm_api_key", BRAVE_API_KEY |-> "brave_api_key"]

\* a validator that takes whitespace for a key
FieldErrorNoStrip(env, var) ==
    IF var \notin DOMAIN env THEN "Field required"
    ELSE IF env[var] = "" THEN "Value error, API key cannot be empty"
    ELSE ""
\* settings.py lines 27, 35, 46-52: what makes Settings() reject a key; "" when
\* the key is accepted
FieldError(env, var) ==
    IF var \notin DOMAIN env THEN "Field required"
    ELSE IF IsBlank(env[var]) THEN "Value error, API key cannot be empty"
    ELSE ""

\* the text of the validation error of Settings(): one entry per rejected field
ValidationErrorText(env) ==
    LET bad == SelectSeq(EnvVars, LAMBDA var : FieldError(env, var) # "")
        Lines[i \in 0..Len(bad)] ==
            IF i = 0 THEN ""
            ELSE Lines[i - 1] \o "\n" \o FieldOf[bad[i]] \o "\n  " \o FieldError(env, bad[i])
    IN  ToString(Len(bad)) \o " validation error" \o (IF Len(bad) = 1 THEN "" ELSE "s")
            \o " for Settings" \o Lines[Len(bad)]

\* settings.py lines 55-68
load_settings(env) ==
    IF \A i \in DOMAIN EnvVars : FieldError(env, EnvVars[i]) = ""
    THEN [exc |-> "none", value |-> "",
          llm_api_key |-> env.LLM_API_KEY, brave_api_key |-> env.BRAVE_API_KEY,
          brave_search_url |-> IF "BRAVE_SEARCH_URL" \in DOMAIN env
                               THEN env.BRAVE_SEARCH_URL ELSE BRAVE_URL]
    ELSE LET e == ValidationErrorText(env)
         IN  [exc |-> "ValueError",
              value |-> "Failed to load settings: " \o e
                  \o (IF Contains(e, "llm_api_key")
                      THEN "\nMake sure to set LLM_API_KEY in your .env file" ELSE "")
                  \o (IF Contains(e, "brave_api_key")
                      THEN "\nMake sure to set BRAVE_API_KEY in your .env file" ELSE ""),
              llm_api_key |-> "", brave_api_key |-> "", brave_search_url |-> ""]

\* the values a key is tried with
KeyValues == {"", " \t", "sk-1"}

\* the environments load_settings is tried in: each key unset, empty,
\* whitespace-only or set
SettingsEnvs ==
    {[LLM_API_KEY |-> l, BRAVE_API_KEY |-> b] : l \in KeyValues, b \in KeyValues}
    \cup {[LLM_API_KEY |-> l] : l \in KeyValues}
    \cup {[BRAVE_API_KEY |-> b] : b \in KeyValues}
    \cup {[var \in {} |-> ""]}

\* settings.py lines 55-68: load_settings is called
LoadSettings(env) ==
    /\ Len(loads) < MaxLoads
    /\ loads' = Append(loads, [env |-> env, outcome |-> load_settings(env)])
    /\ UNCHANGED <<now, limiters, calls, gets, runs, searches, clients>>

\* load_settings alone, over every environment
NextSettings == \E env \in SettingsEnvs : LoadSettings(env)

SpecSettings == Init /\ [][NextSettings]_vars

\* --------------------------------------------------------- dependencies.py
\* every create() handing out the first client of the process
ClientNameShared(n) == "session-" \o ToString(1)
\* the name of the n-th httpx.AsyncClient created in the process
ClientName(n) == "session-" \o ToString(n)

\* dependencies.py lines 37-44: a client as constructed
NewClient == [is_closed |-> FALSE, aclose_calls |-> 0]

\* dependencies.py lines 46-50: the bundle create returns
Bundle(settings, session, session_id) ==
    [brave_api_key |-> settings.brave_api_key, session |-> session, session_id |-> session_id]

\* outcomes of session.aclose()
AcloseOk == [kind |-> "ok", cls |-> "none", value |-> ""]
AcloseRaises(m) == [kind |-> "raise", cls |-> "Exception", value |-> m]
AcloseOutcomes == {AcloseOk, AcloseRaises("Already closed")}

\* dependencies.py lines 52-54: close() awaits session.aclose() and nothing
\* else; what aclose raises, close raises
close(aclose) == aclose

\* ------------------------------------------------------------------ agent.py
\* the calls of the entry points
RunInputs ==
    { [entry |-> "run_research", query |-> "tla", session_id |-> "research-1", max_results |-> 1],
      [entry |-> "run_research_sync", query |-> "tla", session_id |-> None, max_results |-> 10] }

\* the calls of search_web the model loop makes
SearchInputs ==
    { [query |-> "tla", max_results |-> 25],
      [query |-> "tla", max_results |-> -3],
      [query |-> "", max_results |-> 5] }

\* how agent.run / agent.run_sync ends
RunReturns(data) == [kind |-> "data", cls |-> "none", value |-> data]
RunRaises(cls, m) == [kind |-> "raise", cls |-> cls, value |-> m]
RunOutcomes == {RunReturns("report"), RunRaises("Exception", "Test error")}

\* the outcomes of the GETs of a run
SearchOutcomes ==
    { HttpResponse(200, "", JDict([web |-> JDict([results |-> JList(<<Result3, Result2, Result1>>)])])),
      GetTimeout }

\* search_web passing max_results on as it got it
SearchWebArgsUnclamped(deps, query, max_results) ==
    [api_key |-> deps.brave_api_key, session |-> deps.session,
     query |-> query, max_results |-> max_results]
\* agent.py lines 68-78: the arguments search_web calls brave_search_tool with
SearchWebArgs(deps, query, max_results) ==
    [api_key |-> deps.brave_api_key, session |-> deps.session,
     query |-> query, max_results |-> Min(Max(max_results, MIN_RESULTS), MAX_RESULTS)]

\* search_web handing on whatever the delegate ended with
SearchWebReturnBare(rec) == rec.result
\* agent.py lines 80-85: what search_web returns once brave_search_tool is over
SearchWebReturn(rec) ==
    IF rec.exc = "none" THEN rec.result ELSE "Web search failed: " \o rec.result

\* the searches of run r
SearchesOf(r) == {w \in DOMAIN searches : searches[w].run = r}

\* the next brave_search_tool call of the process
NextCall == CHOOSE c \in Calls : calls[c].pc = "idle" /\ \A d \in Calls : d < c => calls[d].pc # "idle"

\* agent.py lines 88-92, 113-117: an entry point is called.  Both are
\* `async def`: the call builds a coroutine object and runs none of the body.
Invoke(r, entry, query, session_id, max_results) ==
    /\ runs[r].pc = "idle"
    /\ \A q \in Runs : q < r => runs[q].pc # "idle"
    /\ runs' = [runs EXCEPT ![r] =
            [@ EXCEPT !.pc = "coroutine", !.entry = entry, !.query = query,
                      !.session_id = session_id, !.max_results = max_results]]
    /\ UNCHANGED <<now, limiters, calls, gets, searches, clients, loads>>

\* a create() that builds its client before it loads the settings
StartClientFirst(r, env) ==
    /\ runs[r].pc = "coroutine"
    /\ clients' = Append(clients, NewClient)
    /\ LET settings == load_settings(env)
       IN  IF settings.exc # "none"
           THEN runs' = [runs EXCEPT ![r] =
                    [@ EXCEPT !.pc = "raised", !.env = env,
                              !.exc = settings.exc, !.result = settings.value]]
           ELSE runs' = [runs EXCEPT ![r] =
                    [@ EXCEPT !.pc = "running", !.env = env,
                              !.deps = Bundle(settings, ClientName(Len(clients) + 1),
                                              runs[r].session_id)]]
    /\ UNCHANGED <<now, limiters, calls, gets, searches, loads>>
\* agent.py lines 104, 129 with dependencies.py lines 23-50: the coroutine is
\* awaited and creates its bundle; load_settings raising ends the run before
\* the try block
Start(r, env) ==
    /\ runs[r].pc = "coroutine"
    /\ LET settings == load_settings(env)
       IN  IF settings.exc # "none"
           THEN /\ runs' = [runs EXCEPT ![r] =
                        [@ EXCEPT !.pc = "raised", !.env = env,
                                  !.exc = settings.exc, !.result = settings.value]]
                /\ UNCHANGED clients
           ELSE /\ clients' = Append(clients, NewClient)
                /\ runs' = [runs EXCEPT ![r] =
                        [@ EXCEPT !.pc = "running", !.env = env,
                                  !.deps = Bundle(settings, ClientName(Len(clients) + 1),
                                                  runs[r].session_id)]]
    /\ UNCHANGED <<now, limiters, calls, gets, searches, loads>>

\* agent.py lines 50-85: the model loop of run r calls the search_web tool,
\* which runs to its first await or to its return
SearchWeb(r, query, max_results) ==
    /\ runs[r].pc = "running"
    /\ Len(searches) < MaxSearches
    /\ \E c \in Calls : calls[c].pc = "idle"
    /\ LET c == NextCall
           args == SearchWebArgs(runs[r].deps, query, max_results)
       IN  /\ Call(c, args.api_key, args.session, args.query, args.max_results)
           /\ searches' = Append(searches,
                  [run |-> r, query |-> query, max_results |-> max_results,
                   delegated |-> <<c>>,
                   pc |-> IF calls'[c].pc = "done" THEN "done" ELSE "awaiting",
                   result |-> IF calls'[c].pc = "done" THEN SearchWebReturn(calls'[c]) ELSE ""])
    /\ UNCHANGED <<runs, clients, loads>>

\* agent.py lines 73-85: the GET of a delegated call has an outcome;
\* brave_search_tool and then search_web run to their return
SearchRespond(c, out) ==
    /\ Respond(c, out)
    /\ searches' = [w \in DOMAIN searches |->
            IF searches[w].pc = "awaiting" /\ searches[w].delegated = <<c>>
            THEN [searches[w] EXCEPT !.pc = "done", !.result = SearchWebReturn(calls'[c])]
            ELSE searches[w]]
    /\ UNCHANGED <<runs, clients, loads>>

\* agent.py lines 106-110, 131-135: what the try/finally makes of the way the
\* agent run ended and of the way close() ended
Finally(outcome, closed) ==
    IF closed.kind = "raise"
    THEN [pc |-> "raised", exc |-> closed.cls, result |-> closed.value]
    ELSE IF outcome.kind = "raise"
    THEN [pc |-> "raised", exc |-> outcome.cls, result |-> outcome.value]
    ELSE [pc |-> "returned", exc |-> "none", result |-> outcome.value]

\* an agent run that may end while its searches are still under way
RunEndsEarly(r, outcome) ==
    /\ runs[r].pc = "running"
    /\ LET i == CHOOSE i \in DOMAIN clients : ClientName(i) = runs[r].deps.session
       IN  clients' = [clients EXCEPT ![i].aclose_calls = @ + 1]
    /\ runs' = [runs EXCEPT ![r] =
            [@ EXCEPT !.pc = "closing", !.outcome = outcome, !.closes = @ + 1]]
    /\ UNCHANGED <<now, limiters, calls, gets, searches, loads>>
\* agent.py lines 107-110, 132-135: the agent run is over, with data or with
\* an exception; the finally clause calls deps.close(), which calls aclose()
RunEnds(r, outcome) ==
    /\ runs[r].pc = "running"
    /\ \A w \in SearchesOf(r) : searches[w].pc = "done"
    /\ LET i == CHOOSE i \in DOMAIN clients : ClientName(i) = runs[r].deps.session
       IN  clients' = [clients EXCEPT ![i].aclose_calls = @ + 1]
    /\ runs' = [runs EXCEPT ![r] =
            [@ EXCEPT !.pc = "closing", !.outcome = outcome, !.closes = @ + 1]]
    /\ UNCHANGED <<now, limiters, calls, gets, searches, loads>>

\* agent.py line 110, 135 with dependencies.py lines 52-54: aclose() is over
\* and the entry point returns or raises
CloseDone(r, aclose) ==
    /\ runs[r].pc = "closing"
    /\ LET closed == close(aclose)
           end == Finally(runs[r].outcome, closed)
           i == CHOOSE i \in DOMAIN clients : ClientName(i) = runs[r].deps.session
       IN  /\ clients' = [clients EXCEPT ![i].is_closed = (aclose.kind = "ok") \/ @]
           /\ runs' = [runs EXCEPT ![r] =
                   [@ EXCEPT !.pc = end.pc, !.exc = end.exc, !.result = end.result,
                             !.close_exc = closed.cls]]
    /\ UNCHANGED <<now, limiters, calls, gets, searches, loads>>

\* The runs see the clock through the limiter only, and only as capacity or
\* no capacity: the clock of the runs advances from one GET to the time the
\* bucket has room for the next.
Drain ==
    LET level == Leak(limiters["search_rate_limiter"], now).level
    IN  /\ level > 0
        /\ now + level <= MaxTime
        /\ now' = now + level
        /\ UNCHANGED <<limiters, calls, gets>>

\* the environments the runs are started in
RunEnvs == {env \in Envs : "BRAVE_API_KEY" \in DOMAIN env}

\* The entry points: runs of the agent, each with its searches.
NextRun ==
    \/ \E r \in Runs, inp \in RunInputs :
           Invoke(r, inp.entry, inp.query, inp.session_id, inp.max_results)
    \/ \E r \in Runs, env \in RunEnvs : Start(r, env)
    \/ \E r \in Runs, inp \in SearchInputs : SearchWeb(r, inp.query, inp.max_results)
    \/ /\ \E c \in Calls : Wake(c)
       /\ UNCHANGED agentvars
    \/ \E c \in Calls, out \in SearchOutcomes : SearchRespond(c, out)
    \/ \E r \in Runs, out \in RunOutcomes : RunEnds(r, out)
    \/ \E r \in Runs, a \in AcloseOutcomes : CloseDone(r, a)
    \/ /\ Drain
       /\ UNCHANGED agentvars

SpecRun == Init /\ [][NextRun]_vars

\* the ways a stand-in for brave_search_tool ends: with a string or with an
\* exception
DelegateOutcomes ==
    { Return("Mock search results", 0),
      Raise("Exception", "Connection error", 0),
      Raise("RuntimeError", "", 0) }

\* the calls of search_web with a stand-in
PatchedInputs ==
    { [query |-> "test query", max_results |-> 25],
      [query |-> "", max_results |-> 0] }

\* agent.py lines 66-85 with the name brave_search_tool bound to a stand-in,
\* as the tests of search_web bind it: search_web clamps, awaits the stand-in
\* with the arguments of lines 73-78 and runs to its return
SearchWebPatched(r, query, max_results, out) ==
    /\ runs[r].pc = "running"
    /\ Len(searches) < MaxSearches
    /\ \E c \in Calls : calls[c].pc = "idle"
    /\ LET c == NextCall
           args == SearchWebArgs(runs[r].deps, query, max_results)
           rec == [NotCalled EXCEPT !.pc = "done", !.api_key = args.api_key,
                                    !.session = args.session, !.query = args.query,
                                    !.max_results = args.max_results,
                                    !.result = out.value, !.exc = out.exc]
       IN  /\ calls' = [calls EXCEPT ![c] = rec]
           /\ searches' = Append(searches,
                  [run |-> r, query |-> query, max_results |-> max_results,
                   delegated |-> <<c>>, pc |-> "done", result |-> SearchWebReturn(rec)])
    /\ UNCHANGED <<now, limiters, gets, runs, clients, loads>>

\* the environments of the runs whose search_web has a stand-in
PatchedEnvs == {env \in RunEnvs : DOMAIN env = {"LLM_API_KEY", "BRAVE_API_KEY"}}

\* search_web alone, over every way its delegate can end
NextSearchWeb ==
    \/ \E r \in Runs, inp \in RunInputs :
           Invoke(r, inp.entry, inp.query, inp.session_id, inp.max_results)
    \/ \E r \in Runs, env \in PatchedEnvs : Start(r, env)
    \/ \E r \in Runs, inp \in PatchedInputs, out \in DelegateOutcomes :
           SearchWebPatched(r, inp.query, inp.max_results, out)

SpecSearchWeb == Init /\ [][NextSearchWeb]_vars

\* ------------------------------------------------------------------ claims
\* the GETs a call has issued, as indices of gets
GetsOf(c) == {i \in DOMAIN gets : gets[i].call = c}

\* empty or made of whitespace only
WhitespaceOnly(s) == \A i \in 1..Len(s) : SubSeq(s, i, i) \in {" ", "\t", "\n"}

StartsWith(s, p) == Len(s) >= Len(p) /\ SubSeq(s, 1, Len(p)) = p

\* the call's arguments are ones input validation lets through
PassesValidation(c) == ~WhitespaceOnly(calls[c].api_key) /\ ~WhitespaceOnly(calls[c].query)

Returned(c) == calls[c].pc = "done"

\* the calls that have returned after issuing a GET
Served == {c \in Calls : Returned(c) /\ GetsOf(c) # {}}

\* the time of the earliest GET of the calls of D
FirstGetAt(D) ==
    LET times == {gets[i].at : i \in UNION {GetsOf(c) : c \in D}}
    IN  CHOOSE t \in times : \A u \in times : t <= u

\* C1: any two GETs start at least one second apart, so the calls that have
\* returned after a GET, N of them, took at least N-1 seconds in total: that
\* much time has passed since the first of their GETs, which no call precedes.
C1_OneGetPerSecond ==
    /\ \A i, j \in DOMAIN gets : i < j => gets[j].at - gets[i].at >= TicksPerSecond
    /\ Served # {} => now - FirstGetAt(Served) >= (Cardinality(Served) - 1) * TicksPerSecond

\* three calls have sent their GETs at 0, 1 and 2 seconds and have returned
C1_Witness ==
    /\ Cardinality(Served) = 3
    /\ Len(gets) = 3
    /\ gets[1].at = 0 /\ gets[2].at = TicksPerSecond /\ gets[3].at = 2 * TicksPerSecond
    /\ now = 2 * TicksPerSecond

\* C2: a call that passes input validation issues exactly one GET, whatever
\* the outcome of the GET, and none before the limiter lets it through; a
\* call that repeats the query of another has a GET of its own.
C2_ExactlyOneGet ==
    /\ \A c \in Calls :
          /\ calls[c].pc \in {"in_flight", "done"} /\ PassesValidation(c)
                => Cardinality(GetsOf(c)) = 1
          /\ calls[c].pc \in {"idle", "waiting"} => GetsOf(c) = {}
    /\ \A c, d \in Calls :
          /\ c # d /\ Returned(c) /\ Returned(d) /\ PassesValidation(c) /\ PassesValidation(d)
          /\ calls[c].query = calls[d].query
          => \E i \in GetsOf(c), j \in GetsOf(d) : i # j /\ gets[i].q = gets[j].q

\* a call got a 429, and a later call with the same key, session and query
\* got a timeout: each has returned and there are two GETs
C2_Witness ==
    /\ Returned(1) /\ Returned(2)
    /\ calls[1].outcome.status_code = 429 /\ calls[2].outcome.kind = "timeout"
    /\ calls[1].query = calls[2].query /\ calls[1].api_key = calls[2].api_key
    /\ calls[1].session = calls[2].session
    /\ Len(gets) = 2

\* C3: GETs of calls that differ in session or in API key are one second
\* apart too: the limit is one for the process, not one per session or key.
C3_SharedLimiter ==
    \A i, j \in DOMAIN gets :
        /\ i # j
        /\ gets[i].session # gets[j].session \/ gets[i].token # gets[j].token
        => \/ gets[j].at - gets[i].at >= TicksPerSecond
           \/ gets[i].at - gets[j].at >= TicksPerSecond

\* two calls with different sessions and keys both sent a GET, the second
\* one second after the first, which is still in flight
C3_Witness ==
    /\ Len(gets) >= 2
    /\ calls[gets[1].call].pc = "in_flight"
    /\ gets[1].session # gets[2].session /\ gets[1].token # gets[2].token
    /\ gets[2].at = gets[1].at + TicksPerSecond

\* the call's GET came back with an HTTP response of this status
GotStatus(c, status) ==
    /\ Returned(c)
    /\ calls[c].outcome.kind = "response"
    /\ calls[c].outcome.status_code = status

\* C4: a call whose api_key is empty or whitespace-only returns exactly
\* "Error: Brave API key is required", whatever its query and max_results.
C4_ApiKeyRequired ==
    \A c \in Calls :
        Returned(c) /\ WhitespaceOnly(calls[c].api_key)
        => calls[c].result = "Error: Brave API key is required"

\* a call with a whitespace-only key and an empty query has returned
C4_Witness ==
    /\ Returned(1)
    /\ calls[1].api_key = "  " /\ calls[1].query = "" /\ calls[1].max_results = 25

\* C5: a call whose api_key is not blank and whose query is empty or
\* whitespace-only returns exactly "Error: Search query cannot be empty".
C5_QueryRequired ==
    \A c \in Calls :
        Returned(c) /\ ~WhitespaceOnly(calls[c].api_key) /\ WhitespaceOnly(calls[c].query)
        => calls[c].result = "Error: Search query cannot be empty"

\* a call with a key and a query of a space and a tab has returned
C5_Witness ==
    /\ Returned(1)
    /\ calls[1].api_key = "key-A" /\ calls[1].query = " \t"

\* C6: the count parameter of every GET is the call's max_results clamped to
\* 1..20: 20 above 20, 1 below 1, unchanged in between.
C6_CountClamped ==
    \A i \in DOMAIN gets :
        LET m == calls[gets[i].call].max_results
        IN  gets[i].count = IF m > 20 THEN 20 ELSE IF m < 1 THEN 1 ELSE m

\* a call with max_results = 0 has sent its GET
C6_Witness ==
    /\ Len(gets) = 1
    /\ calls[gets[1].call].max_results = 0
    /\ gets[1].count = 1

\* C7: a call whose GET came back with status 429 returns the rate-limit
\* message whatever the body is, without decoding the body and without
\* another GET.
C7_RateLimited ==
    \A c \in Calls :
        GotStatus(c, 429)
        => /\ calls[c].result = "Error: Rate limit exceeded. Please try again in a moment."
           /\ calls[c].parsed = 0
           /\ Cardinality(GetsOf(c)) = 1

\* a 429 whose body is JSON with a result in it
C7_Witness ==
    /\ GotStatus(1, 429)
    /\ calls[1].outcome.json.tag = "dict" /\ calls[1].outcome.text = "Unauthorized"

\* C8: a call whose GET came back with status 401 returns the invalid-key
\* message whatever the body is.
C8_Unauthorized ==
    \A c \in Calls :
        GotStatus(c, 401)
        => calls[c].result = "Error: Invalid Brave API key. Please check your configuration."

\* a 401 with an empty text and a body that is not JSON
C8_Witness ==
    /\ GotStatus(1, 401)
    /\ calls[1].outcome.json.tag = "invalid" /\ calls[1].outcome.text = ""

\* C9: a call whose GET came back with a status other than 200, 401 and 429
\* returns "Error: Brave API returned <status>: " followed by the first 200
\* characters of the response text (all of it when it is shorter); the body
\* is decoded for status 200 only.
C9_OtherStatus ==
    \A c \in Calls :
        LET out == calls[c].outcome
            n == IF Len(out.text) > 200 THEN 200 ELSE Len(out.text)
        IN  /\ Returned(c) /\ out.kind = "response" /\ out.status_code \notin {200, 401, 429}
               => /\ calls[c].result = "Error: Brave API returned "
                        \o ToString(out.status_code) \o ": " \o SubSeq(out.text, 1, n)
                  /\ Len(calls[c].result)
                        <= Len("Error: Brave API returned ") + Len(ToString(out.status_code)) + 2 + 200
            /\ calls[c].parsed > 0 => GotStatus(c, 200)

\* a 503 with a text of 204 characters, of which 200 are in the result
C9_Witness ==
    /\ GotStatus(1, 503)
    /\ Len(calls[1].outcome.text) = 204
    /\ Len(calls[1].result) = Len("Error: Brave API returned 503: ") + 200

\* the decoded body has no web results: no "web" key, or a "web" object with
\* no "results" key or with an empty list of results
NoWebResults(json) ==
    /\ json.tag = "dict"
    /\ \/ "web" \notin DOMAIN json.items
       \/ /\ json.items["web"].tag = "dict"
          /\ \/ "results" \notin DOMAIN json.items["web"].items
             \/ /\ json.items["web"].items["results"].tag = "list"
                /\ Len(json.items["web"].items["results"].elems) = 0

\* C10: a call whose GET came back with status 200 and a body without web
\* results returns exactly "No search results found for query: <query>", which
\* does not start with "Error:".
C10_NoResults ==
    \A c \in Calls :
        GotStatus(c, 200) /\ NoWebResults(calls[c].outcome.json)
        => /\ calls[c].result = "No search results found for query: " \o calls[c].query
           /\ ~StartsWith(calls[c].result, "Error:")

\* a 200 whose results list is empty, for the query " tla "
C10_Witness ==
    /\ GotStatus(1, 200)
    /\ calls[1].query = " tla "
    /\ calls[1].outcome.json = JDict([web |-> JDict([results |-> JList(<<>>)])])

\* the first position at or after from at which sub occurs in s, 0 if none
Find(s, sub, from) ==
    LET ps == {p \in Occurrences(s, sub) : p >= from}
    IN  IF ps = {} THEN 0 ELSE CHOOSE p \in ps : \A q \in ps : p <= q

\* the entries of a report: each has one "   URL: " line
Entries(text) == Cardinality(Occurrences(text, "\n   URL: "))

\* the results of a status-200 body that has a non-empty list of results,
\* each of them an object; <<>> for any other body
ResultsOf(json) ==
    IF /\ json.tag = "dict"
       /\ "web" \in DOMAIN json.items
       /\ json.items["web"].tag = "dict"
       /\ "results" \in DOMAIN json.items["web"].items
       /\ json.items["web"].items["results"].tag = "list"
    THEN json.items["web"].items["results"].elems
    ELSE <<>>

Field(result, key, missing) ==
    IF key \in DOMAIN result.items THEN result.items[key] ELSE missing

\* the text the report has for result i of a list
EntryText(i, result) ==
    ToString(i) \o ". **" \o Field(result, "title", "No title") \o "**\n"
    \o "   URL: " \o Field(result, "url", "No URL") \o "\n"
    \o "   " \o Field(result, "description", "No description") \o "\n"

\* C11: a call whose GET came back with status 200 and a non-empty list of
\* results returns a text that starts with "Search Results for '<query>':"
\* and has one entry per result and no more, numbered from 1 and in the
\* order of the list, each with the result's title, URL and description or
\* "No title", "No URL", "No description" for a field the result lacks.
C11_ReportFormat ==
    \A c \in Calls :
        LET results == ResultsOf(calls[c].outcome.json)
            text == calls[c].result
            at(i) == Find(text, EntryText(i, results[i]), 1)
        IN  GotStatus(c, 200) /\ Len(results) > 0
            => /\ StartsWith(text, "Search Results for '" \o calls[c].query \o "':")
               /\ Entries(text) = Len(results)
               /\ \A i \in 1..Len(results) : at(i) > 0
               /\ \A i \in 1..(Len(results) - 1) : at(i) < at(i + 1)

\* a report of three results, of which the first has no field at all
C11_Witness ==
    /\ GotStatus(1, 200)
    /\ Len(ResultsOf(calls[1].outcome.json)) = 3
    /\ Contains(calls[1].result, "1. **No title**\n   URL: No URL\n   No description\n")
    /\ Contains(calls[1].result, "3. **TLA+**")

\* C12: the report of a call has at most as many entries as the call's
\* max_results clamped to 1..20, whatever the response carries.
C12_AtMostMaxResults ==
    \A c \in Calls :
        LET m == calls[c].max_results
        IN  Returned(c)
            => Entries(calls[c].result) <= IF m > 20 THEN 20 ELSE IF m < 1 THEN 1 ELSE m

\* C13: a call whose GET timed out returns exactly "Error: Search request
\* timed out" and raises nothing.
C13_Timeout ==
    \A c \in Calls :
        Returned(c) /\ calls[c].outcome.kind = "timeout"
        => /\ calls[c].result = "Error: Search request timed out"
           /\ calls[c].exc = "none"

\* a call with a GET that timed out has returned
C13_Witness ==
    /\ Returned(1)
    /\ calls[1].outcome.kind = "timeout"
    /\ Len(gets) = 1

\* the GET of the call came back with status 200 and a body whose decoding
\* or walk raises: not JSON, not an object, or with a "web" that is null
BodyRaises(c) ==
    /\ GotStatus(c, 200)
    /\ \/ calls[c].outcome.json.tag # "dict"
       \/ /\ "web" \in DOMAIN calls[c].outcome.json.items
          /\ calls[c].outcome.json.items["web"].tag = "None"

\* C14: a call whose GET raised an exception other than a timeout returns
\* "Error: Search failed: " followed by the exception's message, and so does
\* a call whose status-200 body cannot be decoded or walked; neither raises.
C14_SearchFailed ==
    \A c \in Calls :
        /\ Returned(c) /\ calls[c].outcome.kind = "exception"
           => /\ calls[c].result = "Error: Search failed: " \o calls[c].outcome.msg
              /\ calls[c].exc = "none"
        /\ BodyRaises(c)
           => /\ StartsWith(calls[c].result, "Error: Search failed: ")
              /\ calls[c].exc = "none"
        /\ BodyRaises(c) /\ calls[c].outcome.json.tag = "dict"
           => calls[c].result
                  = "Error: Search failed: 'NoneType' object has no attribute 'get'"

\* a status-200 body whose "web" is null
C14_Witness ==
    /\ BodyRaises(1)
    /\ calls[1].outcome.json = JDict([web |-> JNone])

\* the search of the call failed: its GET timed out, raised, came back with
\* a status other than 200, or with a body that cannot be decoded or walked
SearchFailed(c) ==
    /\ Returned(c)
    /\ \/ calls[c].outcome.kind \in {"timeout", "exception"}
       \/ calls[c].outcome.kind = "response" /\ calls[c].outcome.status_code # 200
       \/ BodyRaises(c)

Finished(r) == runs[r].pc \in {"returned", "raised"}

\* run r has created its dependency bundle
HasBundle(r) == runs[r].deps # NoDeps

\* the client of the bundle of run r
ClientOf(r) == clients[CHOOSE i \in DOMAIN clients : ClientName(i) = runs[r].deps.session]

\* C16 as stated: a run_research call that created its bundle closes it exactly
\* once, after the agent run; when the agent run returned data the call
\* returns that data, and when the agent run raised the call raises that
\* exception.
C16_RunResearchLifecycle ==
    \A r \in Runs :
        runs[r].entry = "run_research" /\ HasBundle(r) =>
            /\ runs[r].closes <= 1
            /\ ClientOf(r).aclose_calls = runs[r].closes
            /\ runs[r].pc = "running" => runs[r].closes = 0
            /\ Finished(r) => runs[r].closes = 1
            /\ Finished(r) /\ runs[r].outcome.kind = "data" =>
                   runs[r].pc = "returned" /\ runs[r].result = runs[r].outcome.value
            /\ Finished(r) /\ runs[r].outcome.kind = "raise" =>
                   /\ runs[r].pc = "raised"
                   /\ runs[r].exc = runs[r].outcome.cls
                   /\ runs[r].result = runs[r].outcome.value

\* C17 as stated: run_research_sync is synchronous: once it has been called it
\* is over, and a bundle it created has been closed exactly once.
C17_SyncRunsToCompletion ==
    \A r \in Runs :
        runs[r].entry = "run_research_sync" =>
            /\ Finished(r)
            /\ HasBundle(r) => runs[r].closes = 1

\* the search_web invocation that delegated to call c
SearchOfCall(c) == CHOOSE w \in DOMAIN searches : searches[w].delegated = <<c>>

\* C18 as stated: every GET of a search issued during a run asks for at most
\* as many results as the max_results the run was called with.
C18_RunMaxResultsBounds ==
    \A i \in DOMAIN gets :
        gets[i].count <= runs[searches[SearchOfCall(gets[i].call)].run].max_results

\* C19: every search_web invocation has made exactly one brave_search_tool
\* call, with the API key and session of the bundle of its run, its own query,
\* and its max_results brought into 1..20; no other invocation shares that
\* call; once the invocation has returned, it has returned the string the
\* call returned.
C19_SearchWebDelegates ==
    /\ Cardinality({c \in Calls : calls[c].pc # "idle"}) = Len(searches)
    /\ \A w \in DOMAIN searches :
        LET s == searches[w]
            c == s.delegated[1]
            deps == runs[s.run].deps
        IN  /\ Len(s.delegated) = 1
            /\ \A v \in DOMAIN searches : searches[v].delegated = s.delegated => v = w
            /\ calls[c].pc # "idle"
            /\ calls[c].api_key = deps.brave_api_key
            /\ calls[c].session = deps.session
            /\ calls[c].query = s.query
            /\ calls[c].max_results =
                   (IF s.max_results < 1 THEN 1 ELSE IF s.max_results > 20 THEN 20 ELSE s.max_results)
            /\ s.pc = "done" <=> calls[c].pc = "done"
            /\ s.pc = "done" => calls[c].exc = "none" /\ s.result = calls[c].result

\* a search_web invocation asked for 25 results, delegated with 20 and has
\* returned the three results of its GET
C19_Witness ==
    \E w \in DOMAIN searches :
        /\ searches[w].pc = "done"
        /\ searches[w].max_results = 25
        /\ calls[searches[w].delegated[1]].max_results = 20
        /\ GetsOf(searches[w].delegated[1]) # {}
        /\ Entries(searches[w].result) = 3

\* C20 as stated: close() raises nothing, whatever session.aclose() does.
C20_CloseNeverRaises ==
    \A r \in Runs : runs[r].close_exc = "none"

\* the runs that have created their dependency bundle
Bundled == {r \in Runs : HasBundle(r)}

\* C21: each create() has built a client of its own: no two bundles share a
\* session, there are as many clients as bundles, each bundle holds the
\* session_id its run was called with, every brave_search_tool call made for
\* a run goes through the session of the run's bundle, and a bundle, once
\* created, never changes.
C21_FreshClientPerBundle ==
    /\ [](/\ \A r, q \in Bundled : r # q => runs[r].deps.session # runs[q].deps.session
          /\ Len(clients) = Cardinality(Bundled)
          /\ \A r \in Bundled :
                /\ runs[r].deps.session_id = runs[r].session_id
                /\ \E i \in DOMAIN clients : ClientName(i) = runs[r].deps.session
          /\ \A w \in DOMAIN searches :
                calls[searches[w].delegated[1]].session = runs[searches[w].run].deps.session)
    /\ [][\A r \in Bundled : runs'[r].deps = runs[r].deps]_vars

\* two runs, one called with session_id "research-1" and one with none, hold
\* their bundles, and each has finished a search through its own session
C21_Witness ==
    /\ Bundled = {1, 2}
    /\ runs[1].deps.session_id # runs[2].deps.session_id
    /\ \A r \in Bundled : \E w \in SearchesOf(r) :
           /\ searches[w].pc = "done"
           /\ GetsOf(searches[w].delegated[1]) # {}
    /\ gets[1].session # gets[2].session

\* the variable is unset, empty or whitespace-only in the environment
KeyUnusable(env, var) == var \notin DOMAIN env \/ WhitespaceOnly(env[var])

\* C22: a load_settings call in an environment where LLM_API_KEY or
\* BRAVE_API_KEY is unset, empty or whitespace-only raises ValueError with a
\* message that starts with "Failed to load settings" and names each such
\* variable; a call that returns returns the two keys of the environment,
\* neither of them blank.
C22_LoadSettingsValidates ==
    \A i \in DOMAIN loads :
        LET env == loads[i].env
            out == loads[i].outcome
        IN  IF KeyUnusable(env, "LLM_API_KEY") \/ KeyUnusable(env, "BRAVE_API_KEY")
            THEN /\ out.exc = "ValueError"
                 /\ StartsWith(out.value, "Failed to load settings")
                 /\ KeyUnusable(env, "LLM_API_KEY") => Contains(out.value, "LLM_API_KEY")
                 /\ KeyUnusable(env, "BRAVE_API_KEY") => Contains(out.value, "BRAVE_API_KEY")
            ELSE /\ out.exc = "none"
                 /\ out.llm_api_key = env.LLM_API_KEY /\ ~WhitespaceOnly(out.llm_api_key)
                 /\ out.brave_api_key = env.BRAVE_API_KEY /\ ~WhitespaceOnly(out.brave_api_key)

\* load_settings has raised in an environment with a whitespace-only
\* LLM_API_KEY and no BRAVE_API_KEY, and has returned in one with both keys
C22_Witness ==
    /\ Len(loads) = 2
    /\ DOMAIN loads[1].env = {"LLM_API_KEY"} /\ loads[1].env.LLM_API_KEY = " \t"
    /\ loads[1].outcome.exc = "ValueError"
    /\ Contains(loads[1].outcome.value, "Make sure to set BRAVE_API_KEY")
    /\ loads[2].outcome.exc = "none" /\ loads[2].outcome.brave_api_key = "sk-1"

\* C23: a call that input validation rejects has returned as soon as it is
\* made and has no GET, and the step that makes it leaves the limiters, the
\* GETs, the clock and every other call as they were.
C23_RejectedCallIsFree ==
    /\ [](\A c \in Calls :
             calls[c].pc # "idle" /\ ~PassesValidation(c) => Returned(c) /\ GetsOf(c) = {})
    /\ [][\A c \in Calls :
             /\ calls[c].pc = "idle" /\ calls'[c].pc # "idle"
             /\ WhitespaceOnly(calls'[c].api_key) \/ WhitespaceOnly(calls'[c].query)
             => /\ limiters' = limiters
                /\ gets' = gets
                /\ now' = now
                /\ \A d \in Calls \ {c} : calls'[d] = calls[d]]_vars

\* at time 0 a call without a key and a call without a query have been
\* rejected, and the call made after them has its GET in flight, sent at 0
C23_Witness ==
    /\ now = 0
    /\ Returned(1) /\ calls[1].api_key = "" /\ GetsOf(1) = {}
    /\ Returned(2) /\ calls[2].query = "" /\ GetsOf(2) = {}
    /\ calls[3].pc = "in_flight"
    /\ Len(gets) = 1 /\ gets[1].call = 3 /\ gets[1].at = 0

\* the time the latest GET started
LastGetAt == gets[Len(gets)].at

\* C24: what the bucket of the limiter holds depends on the time the latest
\* GET started and on nothing else, responses included: it is full at that
\* time and empty one second later; and a call made one second or more after
\* the latest GET started does not wait, whatever is in flight.
C24_LimiterNotHeld ==
    /\ [](LET level == Leak(limiters["search_rate_limiter"], now).level
          IN  IF gets = <<>> THEN level = 0
              ELSE level = Max(PeriodTicks - (now - LastGetAt), 0))
    /\ [][\A c \in Calls :
             calls[c].pc = "idle" /\ calls'[c].pc = "waiting"
             => gets # <<>> /\ now < LastGetAt + PeriodTicks]_vars

\* two GETs are in flight at once: the second started one second after the
\* first, which has had no response yet
C24_Witness ==
    /\ Len(gets) = 2
    /\ gets[2].at = gets[1].at + TicksPerSecond
    /\ \A i \in DOMAIN gets : calls[gets[i].call].pc = "in_flight"

\* C25: every call that has been made returns a string in the end.
C25_EveryCallReturns ==
    \A c \in Calls :
        (calls[c].pc # "idle") ~> (Returned(c) /\ calls[c].exc = "none")

\* three calls made at time 0 have returned, the second and the third after
\* waiting on the limiter; their GETs got a 429, a timeout and an exception
C25_Witness ==
    /\ \A c \in Calls : Returned(c) /\ calls[c].exc = "none"
    /\ Len(gets) = 3
    /\ gets[1].at = 0 /\ gets[2].at = TicksPerSecond /\ gets[3].at = 2 * TicksPerSecond
    /\ calls[1].outcome.kind = "response" /\ calls[1].outcome.status_code = 429
    /\ calls[2].outcome.kind = "timeout"
    /\ calls[3].outcome.kind = "exception"

\* the client behind a session
ClientAt(session) == clients[CHOOSE i \in DOMAIN clients : ClientName(i) = session]

SettingsFailed(r) ==
    /\ runs[r].pc \notin {"idle", "coroutine"}
    /\ KeyUnusable(runs[r].env, "LLM_API_KEY") \/ KeyUnusable(runs[r].env, "BRAVE_API_KEY")

\* C27: a run started in an environment load_settings rejects has raised the
\* ValueError of load_settings; it holds no bundle, its agent never ran, it
\* made no search and called close() on nothing; and there are no clients but
\* those of the bundles: a create() that failed has left none behind.
C27_NoClientOnSettingsFailure ==
    /\ Len(clients) = Cardinality(Bundled)
    /\ \A r \in Runs :
          SettingsFailed(r)
          => /\ runs[r].pc = "raised" /\ runs[r].exc = "ValueError"
             /\ StartsWith(runs[r].result, "Failed to load settings")
             /\ ~HasBundle(r)
             /\ runs[r].outcome.kind = "none"
             /\ SearchesOf(r) = {}
             /\ runs[r].closes = 0 /\ runs[r].close_exc = "none"

\* the first client of the process belongs to the second run: the first run,
\* a run_research call, raised the ValueError of load_settings
C27_Witness ==
    /\ SettingsFailed(1) /\ runs[1].entry = "run_research"
    /\ runs[1].pc = "raised" /\ Contains(runs[1].result, "BRAVE_API_KEY")
    /\ HasBundle(2) /\ runs[2].deps.session = ClientName(1)
    /\ Len(clients) = 1

\* C28: every search_web invocation whose delegate is over has returned a
\* string: the delegate's string when the delegate returned one, and
\* "Web search failed: " followed by the exception's message when the
\* delegate raised.
C28_SearchWebNeverRaises ==
    \A w \in DOMAIN searches :
        LET d == calls[searches[w].delegated[1]]
        IN  d.pc = "done"
            => /\ searches[w].pc = "done"
               /\ d.exc = "none" => searches[w].result = d.result
               /\ d.exc # "none" => searches[w].result = "Web search failed: " \o d.result

\* a delegate raised Exception("Connection error") and another raised a
\* RuntimeError without a message; both searches have returned
C28_Witness ==
    /\ Len(searches) = 2
    /\ calls[searches[1].delegated[1]].exc = "Exception"
    /\ searches[1].result = "Web search failed: Connection error"
    /\ calls[searches[2].delegated[1]].exc = "RuntimeError"
    /\ searches[2].result = "Web search failed: "

\* what a GET carries, apart from when and through which client it is sent
Wire(i) ==
    [url |-> gets[i].url, token |-> gets[i].token, accept |-> gets[i].accept,
     q |-> gets[i].q, count |-> gets[i].count, search_lang |-> gets[i].search_lang]

\* the run and the search_web invocation behind a GET
RunOfGet(i) == searches[SearchOfCall(gets[i].call)].run
SearchOfGet(i) == searches[SearchOfCall(gets[i].call)]

\* the environment without its BRAVE_SEARCH_URL
WithoutUrl(env) == [var \in DOMAIN env \ {"BRAVE_SEARCH_URL"} |-> env[var]]

\* C29: every GET goes to https://api.search.brave.com/res/v1/web/search with
\* the api_key of its call, which is the BRAVE_API_KEY of its run, as token
\* and the query of its call as q; and two GETs of searches with the same
\* arguments, in runs whose environments differ in BRAVE_SEARCH_URL at most,
\* carry the same request.
C29_FixedEndpoint ==
    /\ \A i \in DOMAIN gets :
          /\ gets[i].url = "https://api.search.brave.com/res/v1/web/search"
          /\ gets[i].token = calls[gets[i].call].api_key
          /\ gets[i].token = runs[RunOfGet(i)].env.BRAVE_API_KEY
          /\ gets[i].q = calls[gets[i].call].query
          /\ gets[i].q = SearchOfGet(i).query
    /\ \A i, j \in DOMAIN gets :
          /\ WithoutUrl(runs[RunOfGet(i)].env) = WithoutUrl(runs[RunOfGet(j)].env)
          /\ SearchOfGet(i).query = SearchOfGet(j).query
          /\ SearchOfGet(i).max_results = SearchOfGet(j).max_results
          => Wire(i) = Wire(j)

\* a run whose environment sets BRAVE_SEARCH_URL to a proxy and a run whose
\* environment does not set it have each sent the GET of the same search
C29_Witness ==
    /\ Len(gets) = 2
    /\ RunOfGet(1) # RunOfGet(2)
    /\ "BRAVE_SEARCH_URL" \in DOMAIN runs[RunOfGet(1)].env
    /\ runs[RunOfGet(1)].env.BRAVE_SEARCH_URL = "https://proxy.example/search"
    /\ "BRAVE_SEARCH_URL" \notin DOMAIN runs[RunOfGet(2)].env
    /\ SearchOfGet(1).query = SearchOfGet(2).query
    /\ SearchOfGet(1).max_results = SearchOfGet(2).max_results
    /\ Wire(1) = Wire(2)

====
